---- MODULE Spec2Model ----
(***************************************************************************)
(* Model of fossdriver/parser.py: the extraction routines that turn the    *)
(* HTML and JSON answers of a FOSSology server into ParsedUpload and       *)
(* ParsedJob records.                                                      *)
(*                                                                         *)
(* Every routine is a function of its argument.  The initial state draws   *)
(* the argument from a bounded domain; the call is one action that stores  *)
(* the outcome.  An outcome is [exc, val]: exc = "" when the call returned *)
(* val, otherwise exc names the Python exception that left the call.       *)
(*                                                                         *)
(* Python strings are sequences of one-character strings so that           *)
(* partition, strip, "in" and int() are computed, not assumed.  An         *)
(* optional value (None or v) is <<>> or <<v>>.  A markup body is modelled *)
(* by the elements the routine asks the parse tree for, in document order. *)
(***************************************************************************)
EXTENDS Integers, Sequences, FiniteSets, TLC

VARIABLES call, arg, out

vars == <<call, arg, out>>

\* ------------------------------------------------------------------------
\* Bounds of the argument domains.
MaxAnchors == 3
MaxSelects == 2
MaxOptions == 2
MaxRows == 2
MaxItems == 3
MaxInputs == 2

\* ------------------------------------------------------------------------
\* Python values.
None == <<>>

Some(v) == <<v>>

Ret(v) == [exc |-> "", val |-> v]

Raise(e) == [exc |-> e, val |-> None]

\* the call has not run yet
Pending == [exc |-> "pending", val |-> None]

Returned == out.exc = ""

Raised == out.exc \notin {"", "pending"}

\* All sequences over S of length 0..n.
SeqUpTo(S, n) == UNION {[1..k -> S] : k \in 0..n}

\* ------------------------------------------------------------------------
\* Python string operations.
Whitespace == {" ", "\n", "\t"}

Digits == <<"0", "1", "2", "3", "4", "5", "6", "7", "8", "9">>

IsDigit(c) == \E i \in 1..10 : Digits[i] = c

DigitVal(c) == (CHOOSE i \in 1..10 : Digits[i] = c) - 1

\* sub occurs in s starting at index i
OccursAt(s, sub, i) ==
    /\ i >= 1
    /\ i + Len(sub) - 1 <= Len(s)
    /\ \A k \in 1..Len(sub) : s[i + k - 1] = sub[k]

\* Python: sub in s
Contains(s, sub) == \E i \in 1..(Len(s) + 1) : OccursAt(s, sub, i)

\* Python: s.partition(sep), a triple (head, sep, tail) split at the first
\* occurrence of sep, or (s, "", "") when sep does not occur.
Partition(s, sep) ==
    IF Contains(s, sep)
    THEN LET i == CHOOSE j \in 1..(Len(s) + 1) :
                      /\ OccursAt(s, sep, j)
                      /\ \A k \in 1..(j - 1) : ~OccursAt(s, sep, k)
         IN <<SubSeq(s, 1, i - 1), sep, SubSeq(s, i + Len(sep), Len(s))>>
    ELSE <<s, <<>>, <<>>>>

RECURSIVE LStrip(_)
LStrip(s) == IF s # <<>> /\ Head(s) \in Whitespace THEN LStrip(Tail(s)) ELSE s

RECURSIVE RStrip(_)
RStrip(s) ==
    IF s # <<>> /\ s[Len(s)] \in Whitespace
    THEN RStrip(SubSeq(s, 1, Len(s) - 1))
    ELSE s

\* Python: s.strip()
Strip(s) == RStrip(LStrip(s))

RECURSIVE DigitsValue(_)
DigitsValue(s) ==
    IF s = <<>> THEN 0
    ELSE 10 * DigitsValue(SubSeq(s, 1, Len(s) - 1)) + DigitVal(s[Len(s)])

\* Python: int(s) for a str.  Surrounding whitespace and one leading sign
\* are accepted; anything else but a non-empty run of decimal digits is a
\* ValueError.
IntOfStr(s) ==
    LET t == Strip(s)
        signed == t # <<>> /\ Head(t) \in {"+", "-"}
        d == IF signed THEN Tail(t) ELSE t
    IN IF d # <<>> /\ \A k \in 1..Len(d) : IsDigit(d[k])
       THEN Ret(IF signed /\ Head(t) = "-" THEN 0 - DigitsValue(d) ELSE DigitsValue(d))
       ELSE Raise("ValueError")

\* ------------------------------------------------------------------------
\* parseAnchorTagsForNewUploadNumber(content)
\* content is modelled by soup.find_all("a"): the anchors in document
\* order, each with its optional href attribute.
UploadMarker == <<"u", "p", "l", "o", "a", "d", "=">>

Hrefs ==
    { <<"?">> \o UploadMarker \o <<"4", "2">>,
      UploadMarker \o <<"7">>,
      <<"?", "f", "=", "3">>,
      <<"?">> \o UploadMarker \o <<"4", "&", "f", "=", "3">>,
      <<"?">> \o UploadMarker }

Anchors == {[href |-> None]} \cup {[href |-> Some(h)] : h \in Hrefs}

\* ScanAnchors with "return -1" one level too deep: the scan ends at the
\* first anchor whose href lacks the marker.
RECURSIVE ScanAnchorsEarlyReturn(_)
ScanAnchorsEarlyReturn(anchors) ==
    IF anchors = <<>> THEN Ret(-1)
    ELSE LET href == Head(anchors).href
         IN IF href = None THEN ScanAnchorsEarlyReturn(Tail(anchors))
            ELSE IF Contains(href[1], UploadMarker)
                 THEN IntOfStr(Partition(href[1], UploadMarker)[3])
                 ELSE Ret(-1)

RECURSIVE ScanAnchors(_)
ScanAnchors(anchors) ==
    IF anchors = <<>> THEN Ret(-1)
    ELSE LET href == Head(anchors).href
         IN IF href = None THEN ScanAnchors(Tail(anchors))
            ELSE IF Contains(href[1], UploadMarker)
                 THEN IntOfStr(Partition(href[1], UploadMarker)[3])
                 ELSE ScanAnchors(Tail(anchors))

parseAnchorTagsForNewUploadNumber(content) == ScanAnchors(content)

AnchorContents == SeqUpTo(Anchors, MaxAnchors)

CallParseAnchorTags ==
    /\ call = "parseAnchorTagsForNewUploadNumber"
    /\ out = Pending
    /\ out' = parseAnchorTagsForNewUploadNumber(arg)
    /\ UNCHANGED <<call, arg>>

\* ------------------------------------------------------------------------
\* parseFolderNumber(content, folderName)
\* content is modelled by the <select> elements in document order, each
\* with its optional name attribute and its <option> descendants in
\* document order; an option has its text and its optional value attribute.
FolderOptions ==
    { [text |-> <<"E", "g">>, value |-> Some("3")],
      [text |-> <<" ", "E", "g", "\n">>, value |-> Some("4")],
      [text |-> <<"e", "g">>, value |-> Some("5")] }

FolderNames == { <<"E", "g">>, <<"e", "g">>, <<" ", "E", "g">> }

Selects ==
    {[name |-> Some("folder"), options |-> o] : o \in SeqUpTo(FolderOptions, MaxOptions)}
    \cup { [name |-> Some("folder"), options |-> <<[text |-> <<"E", "g">>, value |-> None]>>],
           [name |-> Some("group"), options |-> <<[text |-> <<"E", "g">>, value |-> Some("9")]>>],
           [name |-> None, options |-> <<[text |-> <<"e", "g">>, value |-> Some("8")]>>] }

\* soup.find_all("select", {"name": "folder"})
FindFolderSelects(content) ==
    SelectSeq(content, LAMBDA sel : sel.name = Some("folder"))

\* ScanOptions without the strip() of the option text.
RECURSIVE ScanOptionsNoStrip(_, _)
ScanOptionsNoStrip(options, folderName) ==
    IF options = <<>> THEN <<>>
    ELSE LET option == Head(options)
         IN IF option.text = folderName
            THEN IF option.value = None
                 THEN <<Raise("KeyError")>>
                 ELSE <<Ret(option.value)>>
            ELSE ScanOptionsNoStrip(Tail(options), folderName)

\* the inner loop over folder.findAll("option"): <<>> when no option
\* matched, otherwise the outcome of option["value"] wrapped in <<_>>
RECURSIVE ScanOptions(_, _)
ScanOptions(options, folderName) ==
    IF options = <<>> THEN <<>>
    ELSE LET option == Head(options)
         IN IF Strip(option.text) = folderName
            THEN IF option.value = None
                 THEN <<Raise("KeyError")>>
                 ELSE <<Ret(option.value)>>
            ELSE ScanOptions(Tail(options), folderName)

RECURSIVE ScanFolders(_, _)
ScanFolders(folders, folderName) ==
    IF folders = <<>> THEN Ret(None)
    ELSE LET r == ScanOptions(Head(folders).options, folderName)
         IN IF r # <<>> THEN r[1] ELSE ScanFolders(Tail(folders), folderName)

parseFolderNumber(content, folderName) ==
    ScanFolders(FindFolderSelects(content), folderName)

FolderArgs == [content : SeqUpTo(Selects, MaxSelects), folderName : FolderNames]

CallParseFolderNumber ==
    /\ call = "parseFolderNumber"
    /\ out = Pending
    /\ out' = parseFolderNumber(arg.content, arg.folderName)
    /\ UNCHANGED <<call, arg>>

\* ------------------------------------------------------------------------
\* ParsedUpload()
ParsedUpload ==
    [name |-> Some(""), _id |-> -1, folderId |-> -1,
     spdxTvUrl |-> Some(""), spdxXmlUrl |-> Some("")]

TitleXml == "Generate SPDX report"

TitleTv == "Generate SPDX report in tag:value format"

\* A line item is a list of cells.  Cell 0 is markup, modelled by the parse
\* tree bs4 builds from it: the optional first <b> (by its text children)
\* and the <option> elements in document order, each with its title and
\* optional value attribute.  Cell 2 is a list whose first element is the
\* upload id.  A cell is [b, options, list]; the part a cell does not have
\* is empty.
MarkupCell(b, options) == [b |-> b, options |-> options, list |-> <<>>]

ListCell(list) == [b |-> None, options |-> <<>>, list |-> list]

BoldTags == { None, Some(<<"pkg">>), Some(<<"pkg", "-1.0">>) }

UploadOptions ==
    { [title |-> TitleXml, value |-> Some("?rdf")],
      [title |-> TitleTv, value |-> Some("?tv")],
      [title |-> TitleXml, value |-> None],
      [title |-> "Delete", value |-> Some("?del")] }

MarkupCells ==
    {MarkupCell(b, o) : b \in BoldTags, o \in SeqUpTo(UploadOptions, MaxOptions)}

IdLists == { <<5>>, <<6, 0>>, <<>> }

LineItems ==
    {<<m, ListCell(<<>>), ListCell(l)>> : m \in MarkupCells, l \in IdLists}
    \cup {<<m>> : m \in MarkupCells}

\* Tag.string: the text of a tag whose only child is a text node
TagString(children) == IF Len(children) = 1 THEN Some(children[1]) ELSE None

\* soup.find("option", {"title": title})
FindOption(options, title) ==
    LET idx == {i \in 1..Len(options) : options[i].title = title}
    IN IF idx = {} THEN None
       ELSE Some(options[CHOOSE i \in idx : \A j \in idx : i <= j])

parseUploadDataForFolderLineItem(lineItem) ==
    LET soup == lineItem[1]
        boldTag == soup.b
        optXml == FindOption(soup.options, TitleXml)
        optTv == FindOption(soup.options, TitleTv)
    IN IF Len(lineItem) < 1 THEN Raise("IndexError")
       ELSE IF boldTag = None THEN Raise("AttributeError")
       ELSE IF Len(lineItem) < 3 THEN Raise("IndexError")
       ELSE IF Len(lineItem[3].list) < 1 THEN Raise("IndexError")
       ELSE Ret([ParsedUpload EXCEPT
                   !.name = TagString(boldTag[1]),
                   !.spdxXmlUrl = IF optXml # None THEN optXml[1].value ELSE @,
                   !.spdxTvUrl = IF optTv # None THEN optTv[1].value ELSE @,
                   !._id = lineItem[3].list[1]])

CallParseUploadDataForFolderLineItem ==
    /\ call = "parseUploadDataForFolderLineItem"
    /\ out = Pending
    /\ out' = parseUploadDataForFolderLineItem(arg)
    /\ UNCHANGED <<call, arg>>

\* ------------------------------------------------------------------------
\* parseAllUploadDataForFolder(uploadData)
RECURSIVE ScanUploadData(_, _)
ScanUploadData(uploadData, parsedUploads) ==
    IF uploadData = <<>> THEN Ret(parsedUploads)
    ELSE LET u == parseUploadDataForFolderLineItem(Head(uploadData))
         IN IF u.exc # "" THEN u
            ELSE ScanUploadData(Tail(uploadData), Append(parsedUploads, u.val))

parseAllUploadDataForFolder(uploadData) == ScanUploadData(uploadData, <<>>)

FolderLineItems ==
    { <<MarkupCell(Some(<<"pkg">>), <<>>), ListCell(<<>>), ListCell(<<5>>)>>,
      <<MarkupCell(Some(<<"lib">>), <<[title |-> TitleTv, value |-> Some("?tv")]>>),
        ListCell(<<>>), ListCell(<<6, 0>>)>>,
      <<MarkupCell(Some(<<"pkg", "-1.0">>), <<>>), ListCell(<<>>), ListCell(<<7>>)>>,
      <<MarkupCell(None, <<>>), ListCell(<<>>), ListCell(<<8>>)>>,
      <<MarkupCell(Some(<<"app">>), <<>>), ListCell(<<>>), ListCell(<<>>)>>,
      <<MarkupCell(Some(<<"app">>), <<>>)>> }

UploadData == SeqUpTo(FolderLineItems, MaxItems)

CallParseAllUploadDataForFolder ==
    /\ call = "parseAllUploadDataForFolder"
    /\ out = Pending
    /\ out' = parseAllUploadDataForFolder(arg)
    /\ UNCHANGED <<call, arg>>

\* ------------------------------------------------------------------------
\* parseUploadFormBuildToken(content)
\* content is modelled by the <input> elements in document order, each with
\* its optional name and value attributes.
FormInputs ==
    [name : {None, Some("uploadformbuild"), Some("folder")},
     value : {None, Some("tok1"), Some("tok2"), Some("")}]

\* soup.find("input", {"name": "uploadformbuild"})
FindTokenInput(content) ==
    LET idx == {i \in 1..Len(content) : content[i].name = Some("uploadformbuild")}
    IN IF idx = {} THEN None
       ELSE Some(content[CHOOSE i \in idx : \A j \in idx : i <= j])

\* the statement inside try: .get on None is an AttributeError
TokenLookup(content) ==
    LET input == FindTokenInput(content)
    IN IF input = None THEN Raise("AttributeError") ELSE Ret(input[1].value)

\* parseUploadFormBuildToken without the try/except.
parseUploadFormBuildTokenNoTry(content) == TokenLookup(content)

\* try: return ... except Exception: return None
parseUploadFormBuildToken(content) ==
    LET r == TokenLookup(content)
    IN IF r.exc # "" THEN Ret(None) ELSE r

FormContents == SeqUpTo(FormInputs, MaxInputs)

CallParseUploadFormBuildToken ==
    /\ call = "parseUploadFormBuildToken"
    /\ out = Pending
    /\ out' = parseUploadFormBuildToken(arg)
    /\ UNCHANGED <<call, arg>>

\* ------------------------------------------------------------------------
\* Parse-tree nodes.  A text node has tag "" and its characters in text; an
\* element has its tag name, its optional href attribute and its children.
Text(s) == [tag |-> "", text |-> s, href |-> None, contents |-> <<>>]

Anchor(href, contents) == [tag |-> "a", text |-> <<>>, href |-> href, contents |-> contents]

Cell(contents) == [tag |-> "td", text |-> <<>>, href |-> None, contents |-> contents]

\* Python: node == "literal" for a NavigableString node
IsStr(node, s) == node.tag = "" /\ node.text = s

\* tag.a: the first anchor below tag, None when there is none
FirstAnchor(tag) ==
    LET idx == {i \in 1..Len(tag.contents) : tag.contents[i].tag = "a"}
    IN IF idx = {} THEN None
       ELSE Some(tag.contents[CHOOSE i \in idx : \A j \in idx : i <= j])

\* int(x) for a parse-tree child: a text node goes through int(str), an
\* element is a TypeError
IntOfNode(node) == IF node.tag = "" THEN IntOfStr(node.text) ELSE Raise("TypeError")

\* ------------------------------------------------------------------------
\* ParsedJob()
NoReport == -1

ParsedJob == [_id |-> -1, status |-> Text(<<>>), agent |-> Text(<<>>), reportId |-> NoReport]

S_Completed == <<"C", "o", "m", "p", "l", "e", "t", "e", "d">>

S_NotStarted == <<"N", "o", "t", " ", "s", "t", "a", "r", "t", "e", "d">>

S_Failed == <<"F", "a", "i", "l", "e", "d">>

S_nomos == <<"n", "o", "m", "o", "s">>

ReportMarker == <<"r", "e", "p", "o", "r", "t", "=">>

MinCols == 8

\* ------------------------------------------------------------------------
\* parseDecodedAjaxShowJobsData(content)
\* content is modelled by soup.find_all("tr"): the rows in document order,
\* each with its optional class attribute and its <td> cells.
IdCells ==
    { Cell(<<Anchor(Some(<<"#">>), <<Text(<<"7">>)>>)>>),
      Cell(<<Anchor(Some(<<"#">>), <<Text(<<"1", "2">>)>>)>>),
      Cell(<<Anchor(Some(<<"#">>), <<>>)>>),
      Cell(<<Text(<<"7">>)>>) }

StatusCells ==
    { Cell(<<>>), Cell(<<Text(S_Completed)>>), Cell(<<Text(S_Failed)>>) }

AgentCells == { Cell(<<Text(S_nomos)>>), Cell(<<>>) }

ReportHref == <<"?">> \o ReportMarker \o <<"9", "9">>

ActionCells ==
    { Cell(<<>>),
      Cell(<<Anchor(Some(ReportHref), <<>>)>>),
      Cell(<<Anchor(None, <<>>)>>),
      Cell(<<Anchor(Some(<<"?">> \o ReportMarker), <<>>)>>),
      Cell(<<Anchor(Some(<<"?", "x", "=", "1">>), <<>>)>>),
      Cell(<<Anchor(Some(<<"?", "x", "=", "1">>), <<>>), Anchor(Some(ReportHref), <<>>)>>) }

\* a <tr> with n cells: job id, status, agent, four unread cells, action
MkRow(class, n, idCell, statusCell, agentCell, actionCell) ==
    [class |-> class,
     cols |-> [i \in 1..n |->
                 CASE i = 1 -> idCell
                   [] i = 2 -> statusCell
                   [] i = 3 -> agentCell
                   [] i = 8 -> actionCell
                   [] OTHER -> Cell(<<>>)]]

GoodId == Cell(<<Anchor(Some(<<"#">>), <<Text(<<"7">>)>>)>>)

GoodAgent == Cell(<<Text(S_nomos)>>)

GoodAction == Cell(<<Anchor(Some(ReportHref), <<>>)>>)

JobRows ==
    {MkRow(Some("even"), 8, GoodId, st, GoodAgent, ac) : st \in StatusCells, ac \in ActionCells}
    \cup {MkRow(Some("odd"), 8, id, Cell(<<Text(S_Completed)>>), ag, GoodAction) :
             id \in IdCells, ag \in AgentCells}
    \cup {MkRow(cl, n, id, Cell(<<Text(S_Completed)>>), GoodAgent, GoodAction) :
             cl \in {None, Some("even")}, n \in {7, 8, 9}, id \in {GoodId, Cell(<<>>)}}

\* ParseJobRow without the test of the status before the report link is
\* read.
ParseJobRowAnyStatus(cols) ==
    LET a0 == FirstAnchor(cols[1])
        idOut == IF a0 = None THEN Raise("AttributeError")
                 ELSE IF a0[1].contents = <<>> THEN Raise("IndexError")
                 ELSE IntOfNode(a0[1].contents[1])
        status == IF cols[2].contents = <<>> THEN Text(S_NotStarted)
                  ELSE cols[2].contents[1]
        aLink == FirstAnchor(cols[8])
        reportOut ==
            IF aLink # None
            THEN IF aLink[1].href = None THEN Raise("AttributeError")
                 ELSE IntOfStr(Partition(aLink[1].href[1], ReportMarker)[3])
            ELSE Ret(NoReport)
    IN IF idOut.exc # "" THEN idOut
       ELSE IF cols[3].contents = <<>> THEN Raise("IndexError")
       ELSE IF reportOut.exc # "" THEN reportOut
       ELSE Ret([ParsedJob EXCEPT !._id = idOut.val,
                                  !.status = status,
                                  !.agent = cols[3].contents[1],
                                  !.reportId = reportOut.val])

\* the body of the loop for one row that passed both checks: the job it
\* appends, or the exception that leaves the call
ParseJobRow(cols) ==
    LET a0 == FirstAnchor(cols[1])
        idOut == IF a0 = None THEN Raise("AttributeError")
                 ELSE IF a0[1].contents = <<>> THEN Raise("IndexError")
                 ELSE IntOfNode(a0[1].contents[1])
        status == IF cols[2].contents = <<>> THEN Text(S_NotStarted)
                  ELSE cols[2].contents[1]
        aLink == FirstAnchor(cols[8])
        reportOut ==
            IF IsStr(status, S_Completed) /\ aLink # None
            THEN IF aLink[1].href = None THEN Raise("AttributeError")
                 ELSE IntOfStr(Partition(aLink[1].href[1], ReportMarker)[3])
            ELSE Ret(NoReport)
    IN IF idOut.exc # "" THEN idOut
       ELSE IF cols[3].contents = <<>> THEN Raise("IndexError")
       ELSE IF reportOut.exc # "" THEN reportOut
       ELSE Ret([ParsedJob EXCEPT !._id = idOut.val,
                                  !.status = status,
                                  !.agent = cols[3].contents[1],
                                  !.reportId = reportOut.val])

RECURSIVE ScanJobRows(_, _)
ScanJobRows(rows, jobData) ==
    IF rows = <<>> THEN Ret(jobData)
    ELSE LET row == Head(rows)
         IN IF row.class = None THEN ScanJobRows(Tail(rows), jobData)
            ELSE IF Len(row.cols) < MinCols THEN ScanJobRows(Tail(rows), jobData)
            ELSE LET j == ParseJobRow(row.cols)
                 IN IF j.exc # "" THEN j
                    ELSE ScanJobRows(Tail(rows), Append(jobData, j.val))

parseDecodedAjaxShowJobsData(content) == ScanJobRows(content, <<>>)

JobTableContents == SeqUpTo(JobRows, MaxRows)

CallParseDecodedAjaxShowJobsData ==
    /\ call = "parseDecodedAjaxShowJobsData"
    /\ out = Pending
    /\ out' = parseDecodedAjaxShowJobsData(arg)
    /\ UNCHANGED <<call, arg>>

\* ------------------------------------------------------------------------
\* parseSingleJobData(content)
\* content is modelled by json.loads(content): an object with an optional
\* aaData array of row objects.  A row object is modelled by its optional
\* member "1".  A member is a JSON string (its characters in s), number
\* (in n) or null; the string of row 0 is markup, modelled by the parse
\* tree bs4 builds from it (in soup).
JStr(s) == [t |-> "str", s |-> s, n |-> 0, soup |-> Cell(<<>>)]

JNum(n) == [t |-> "num", s |-> <<>>, n |-> n, soup |-> Cell(<<>>)]

JNull == [t |-> "null", s |-> <<>>, n |-> 0, soup |-> Cell(<<>>)]

JMarkup(soup) == [t |-> "str", s |-> <<>>, n |-> 0, soup |-> soup]

JRow(member) == [c1 |-> member]

S_spdx2 == <<"s", "p", "d", "x", "2">>

S_spdx2tv == <<"s", "p", "d", "x", "2", "t", "v">>

S_br == <<"<", "b", "r", ">">>

GoodJobIdRow == JRow(Some(JMarkup(Cell(<<Anchor(Some(<<"#">>), <<Text(<<"5">>)>>)>>))))

JobIdRows ==
    { GoodJobIdRow,
      JRow(Some(JMarkup(Cell(<<Anchor(Some(<<"#">>), <<>>)>>)))),
      JRow(Some(JMarkup(Cell(<<Text(<<"5">>)>>)))),
      JRow(None) }

ReportIdRows ==
    { JRow(Some(JStr(<<"1", "7">>))),
      JRow(Some(JNum(17))),
      JRow(Some(JStr(<<"n", "/", "a">>))),
      JRow(None) }

AgentRows ==
    { JRow(Some(JStr(S_spdx2))),
      JRow(Some(JStr(S_spdx2tv))),
      JRow(Some(JStr(S_nomos))),
      JRow(None) }

StatusRows ==
    { JRow(Some(JStr(S_Completed \o S_br \o <<"1", "s">>))),
      JRow(Some(JStr(S_Completed))),
      JRow(Some(JStr(S_Failed \o S_br \o S_Completed))),
      JRow(Some(JNull)),
      JRow(None) }

RowCount == 12

MkJobArr(n, idRow, reportRow, agentRow, statusRow) ==
    [i \in 1..n |->
        CASE i = 1 -> idRow
          [] i = 2 -> reportRow
          [] i = 4 -> agentRow
          [] i = 12 -> statusRow
          [] OTHER -> JRow(Some(JStr(<<>>)))]

SingleJobContents ==
    {[aaData |-> None]}
    \cup {[aaData |-> Some(MkJobArr(RowCount, i, r, a, s))] :
             i \in JobIdRows, r \in ReportIdRows, a \in AgentRows, s \in StatusRows}
    \cup {[aaData |-> Some(MkJobArr(n, GoodJobIdRow, JRow(Some(JStr(<<"1", "7">>))),
                                    JRow(Some(JStr(S_spdx2))), JRow(Some(JStr(S_Completed)))))] :
             n \in {0, 1, 3, 11}}

\* Python: int(x) for a decoded JSON member or None
IntOfMember(member) ==
    IF member = None THEN Raise("TypeError")
    ELSE CASE member[1].t = "str" -> IntOfStr(member[1].s)
           [] member[1].t = "num" -> Ret(member[1].n)
           [] OTHER -> Raise("TypeError")

\* parseSingleJobData without the test of the agent before row 1 is read.
parseSingleJobDataAnyAgent(content) ==
    IF content.aaData = None THEN Ret(None)
    ELSE
    LET jobArr == content.aaData[1]
        jobIdString == jobArr[1].c1
        aLink == FirstAnchor(jobIdString[1].soup)
        idOut == IF jobIdString = None THEN Raise("TypeError")
                 ELSE IF aLink = None THEN Raise("AttributeError")
                 ELSE IF aLink[1].contents # <<>> THEN IntOfNode(aLink[1].contents[1])
                 ELSE Ret(ParsedJob._id)
        agent == IF jobArr[4].c1 = None THEN <<>> ELSE jobArr[4].c1[1].s
        status == IF jobArr[12].c1 = None THEN <<>>
                  ELSE IF jobArr[12].c1[1].t = "null" THEN <<>>
                  ELSE Partition(jobArr[12].c1[1].s, S_br)[1]
        jobReportIdString == jobArr[2].c1
        reportOut == IF status = S_Completed
                     THEN IntOfMember(jobReportIdString)
                     ELSE Ret(NoReport)
    IN IF Len(jobArr) < 1 THEN Raise("IndexError")
       ELSE IF idOut.exc # "" THEN idOut
       ELSE IF Len(jobArr) < 4 THEN Raise("IndexError")
       ELSE IF Len(jobArr) < 12 THEN Raise("IndexError")
       ELSE IF reportOut.exc # "" THEN reportOut
       ELSE Ret(Some([ParsedJob EXCEPT !._id = idOut.val,
                                       !.status = Text(status),
                                       !.agent = Text(agent),
                                       !.reportId = reportOut.val]))

parseSingleJobData(content) ==
    IF content.aaData = None THEN Ret(None)
    ELSE
    LET jobArr == content.aaData[1]
        jobIdString == jobArr[1].c1
        aLink == FirstAnchor(jobIdString[1].soup)
        idOut == IF jobIdString = None THEN Raise("TypeError")
                 ELSE IF aLink = None THEN Raise("AttributeError")
                 ELSE IF aLink[1].contents # <<>> THEN IntOfNode(aLink[1].contents[1])
                 ELSE Ret(ParsedJob._id)
        agent == IF jobArr[4].c1 = None THEN <<>> ELSE jobArr[4].c1[1].s
        status == IF jobArr[12].c1 = None THEN <<>>
                  ELSE IF jobArr[12].c1[1].t = "null" THEN <<>>
                  ELSE Partition(jobArr[12].c1[1].s, S_br)[1]
        jobReportIdString == jobArr[2].c1
        reportOut == IF (agent = S_spdx2tv \/ agent = S_spdx2) /\ status = S_Completed
                     THEN IntOfMember(jobReportIdString)
                     ELSE Ret(NoReport)
    IN IF Len(jobArr) < 1 THEN Raise("IndexError")
       ELSE IF idOut.exc # "" THEN idOut
       ELSE IF Len(jobArr) < 4 THEN Raise("IndexError")
       ELSE IF Len(jobArr) < 12 THEN Raise("IndexError")
       ELSE IF reportOut.exc # "" THEN reportOut
       ELSE Ret(Some([ParsedJob EXCEPT !._id = idOut.val,
                                       !.status = Text(status),
                                       !.agent = Text(agent),
                                       !.reportId = reportOut.val]))

CallParseSingleJobData ==
    /\ call = "parseSingleJobData"
    /\ out = Pending
    /\ out' = parseSingleJobData(arg)
    /\ UNCHANGED <<call, arg>>

\* ------------------------------------------------------------------------
\* Specifications: the argument is drawn at the start, the call is one step.
InitAnchor ==
    /\ call = "parseAnchorTagsForNewUploadNumber"
    /\ arg \in AnchorContents
    /\ out = Pending

NextAnchor == CallParseAnchorTags

SpecAnchor == InitAnchor /\ [][NextAnchor]_vars

InitFolder ==
    /\ call = "parseFolderNumber"
    /\ arg \in FolderArgs
    /\ out = Pending

NextFolder == CallParseFolderNumber

SpecFolder == InitFolder /\ [][NextFolder]_vars

InitJobTable ==
    /\ call = "parseDecodedAjaxShowJobsData"
    /\ arg \in JobTableContents
    /\ out = Pending

NextJobTable == CallParseDecodedAjaxShowJobsData

SpecJobTable == InitJobTable /\ [][NextJobTable]_vars

InitSingleJob ==
    /\ call = "parseSingleJobData"
    /\ arg \in SingleJobContents
    /\ out = Pending

NextSingleJob == CallParseSingleJobData

SpecSingleJob == InitSingleJob /\ [][NextSingleJob]_vars

\* both job extractors
InitJobs == InitJobTable \/ InitSingleJob

NextJobs == CallParseDecodedAjaxShowJobsData \/ CallParseSingleJobData

SpecJobs == InitJobs /\ [][NextJobs]_vars

InitUploads ==
    \/ /\ call = "parseUploadDataForFolderLineItem"
       /\ arg \in LineItems
       /\ out = Pending
    \/ /\ call = "parseAllUploadDataForFolder"
       /\ arg \in UploadData
       /\ out = Pending

NextUploads == CallParseUploadDataForFolderLineItem \/ CallParseAllUploadDataForFolder

SpecUploads == InitUploads /\ [][NextUploads]_vars

InitToken ==
    /\ call = "parseUploadFormBuildToken"
    /\ arg \in FormContents
    /\ out = Pending

NextToken == CallParseUploadFormBuildToken

SpecToken == InitToken /\ [][NextToken]_vars

\* ------------------------------------------------------------------------
\* Properties of parseAnchorTagsForNewUploadNumber.

\* the anchor has an href in which the marker occurs
HasUploadHref(anchor) ==
    /\ anchor.href # None
    /\ \E k \in 1..Len(anchor.href[1]) : OccursAt(anchor.href[1], UploadMarker, k)

\* n is the integer that ends href right after the marker
IsIntegerSuffix(href, marker, n) ==
    \E k \in 1..Len(href) :
        LET d == SubSeq(href, k + Len(marker), Len(href))
        IN /\ OccursAt(href, marker, k)
           /\ d # <<>>
           /\ \A i \in 1..Len(d) : IsDigit(d[i])
           /\ n = DigitsValue(d)

UploadAnchors == {i \in 1..Len(arg) : HasUploadHref(arg[i])}

FirstUploadAnchor == arg[CHOOSE i \in UploadAnchors : \A j \in UploadAnchors : i <= j]

\* C5: without an anchor whose href contains upload= the call returns -1 and
\* does not raise; otherwise, when an integer follows upload= in the href of
\* the first such anchor in document order, the call returns that integer,
\* wherever the anchor sits and whatever anchors without href or without
\* the marker precede it.
C5_FirstUploadAnchor ==
    (call = "parseAnchorTagsForNewUploadNumber" /\ out # Pending) =>
        /\ UploadAnchors = {} => out = Ret(-1)
        /\ UploadAnchors # {} =>
              \A n \in 0..99 :
                  IsIntegerSuffix(FirstUploadAnchor.href[1], UploadMarker, n) => out = Ret(n)

\* a marked anchor in third place, behind an anchor without href and one
\* whose href lacks the marker, and behind it the call returned 42
C5_Witness ==
    /\ call = "parseAnchorTagsForNewUploadNumber"
    /\ Len(arg) = 3
    /\ arg[1].href = None
    /\ arg[2].href # None /\ ~HasUploadHref(arg[2])
    /\ HasUploadHref(arg[3])
    /\ out = Ret(42)

\* ------------------------------------------------------------------------
\* Properties of parseFolderNumber.

\* text is name with whitespace before and after it, and name itself has
\* none at either end
TrimmedEquals(text, name) ==
    /\ name = <<>> \/ (name[1] \notin Whitespace /\ name[Len(name)] \notin Whitespace)
    /\ \E i \in 1..(Len(text) + 1) :
          /\ i + Len(name) - 1 <= Len(text)
          /\ SubSeq(text, i, i + Len(name) - 1) = name
          /\ \A k \in 1..Len(text) :
                (k < i \/ k > i + Len(name) - 1) => text[k] \in Whitespace

\* the options of the <select name="folder"> elements, in document order
RECURSIVE FolderOptionList(_)
FolderOptionList(content) ==
    IF content = <<>> THEN <<>>
    ELSE (IF Head(content).name = Some("folder") THEN Head(content).options ELSE <<>>)
         \o FolderOptionList(Tail(content))

MatchingOptions ==
    LET opts == FolderOptionList(arg.content)
    IN {i \in 1..Len(opts) : TrimmedEquals(opts[i].text, arg.folderName)}

FirstMatchingOption ==
    FolderOptionList(arg.content)[CHOOSE i \in MatchingOptions :
                                      \A j \in MatchingOptions : i <= j]

TokenInputs == {i \in 1..Len(arg) : arg[i].name = Some("uploadformbuild")}

FirstTokenInput == arg[CHOOSE i \in TokenInputs : \A j \in TokenInputs : i <= j]

\* C9: the call never raises; it returns the value attribute of the input
\* named uploadformbuild when the element exists and has the attribute, and
\* None when the element is missing or has no value attribute.
C9_TokenOrNone ==
    (call = "parseUploadFormBuildToken" /\ out # Pending) =>
        /\ ~Raised
        /\ TokenInputs = {} => out = Ret(None)
        /\ TokenInputs # {} => out = Ret(FirstTokenInput.value)

\* a body with an input of another name only: the lookup failed inside the
\* call and None was returned
C9_Witness ==
    /\ call = "parseUploadFormBuildToken"
    /\ Len(arg) = 1
    /\ arg[1].name = Some("folder")
    /\ arg[1].value = Some("tok1")
    /\ out = Ret(None)

\* ------------------------------------------------------------------------
\* Properties of the job extractors.

\* a <tr> with a class attribute and at least 8 <td> cells
DataRow(row) == row.class # None /\ Len(row.cols) >= 8

DataRows == SelectSeq(arg, DataRow)

\* the status of a data row: the first text of column 1, "Not started" for
\* an empty cell
RowStatusIs(row, s) ==
    IF row.cols[2].contents = <<>> THEN s = S_NotStarted
    ELSE IsStr(row.cols[2].contents[1], s)

\* column 7 of the row holds an anchor
HasActionAnchor(row) ==
    \E i \in 1..Len(row.cols[8].contents) : row.cols[8].contents[i].tag = "a"

\* column 7 of the row holds an anchor whose href ends in report=n
HasReportLink(row, n) ==
    \E i \in 1..Len(row.cols[8].contents) :
        LET a == row.cols[8].contents[i]
        IN a.tag = "a" /\ a.href # None /\ IsIntegerSuffix(a.href[1], ReportMarker, n)

\* C1: the call returns one Job per data row, in row order, and nothing for
\* a row without class attribute or with fewer than 8 cells.
C1_OneJobPerDataRow ==
    (call = "parseDecodedAjaxShowJobsData" /\ out # Pending) =>
        /\ Returned
        /\ Len(out.val) = Len(DataRows)
        /\ \A i \in 1..Len(DataRows) : ParseJobRow(DataRows[i].cols) = Ret(out.val[i])

\* C2: a returned Job has a reportId other than -1 only if its status is
\* exactly "Completed" and, from parseSingleJobData, only if its agent is
\* spdx2tv or spdx2.
C2_ReportIdOnlyWhenCompleted ==
    /\ (call = "parseDecodedAjaxShowJobsData" /\ Returned) =>
          \A i \in 1..Len(out.val) :
              out.val[i].reportId # -1 => IsStr(out.val[i].status, S_Completed)
    /\ (call = "parseSingleJobData" /\ Returned /\ out.val # None) =>
          (out.val[1].reportId # -1 =>
              /\ IsStr(out.val[1].status, S_Completed)
              /\ IsStr(out.val[1].agent, S_spdx2tv) \/ IsStr(out.val[1].agent, S_spdx2))

\* a table whose first row is "Failed" with a report link and whose second
\* is "Completed" with one: the first Job has no reportId, the second 99
C2_Witness ==
    /\ call = "parseDecodedAjaxShowJobsData"
    /\ Returned
    /\ Len(arg) = 2 /\ Len(out.val) = 2
    /\ RowStatusIs(arg[1], S_Failed) /\ HasReportLink(arg[1], 99)
    /\ out.val[1].reportId = -1
    /\ IsStr(out.val[2].status, S_Completed)
    /\ out.val[2].reportId = 99

\* C3: every data row with status "Completed" and an anchor in column 7
\* whose href ends in report=n yields a Job with reportId n; every data row
\* with another status or without anchor in column 7 yields a Job with
\* reportId -1.
C3_ReportIdFromHref ==
    (call = "parseDecodedAjaxShowJobsData" /\ out # Pending) =>
        \A i \in 1..Len(DataRows) :
            /\ \A n \in 0..99 :
                  (RowStatusIs(DataRows[i], S_Completed) /\ HasReportLink(DataRows[i], n)) =>
                      Returned /\ Len(out.val) >= i /\ out.val[i].reportId = n
            /\ (~RowStatusIs(DataRows[i], S_Completed) \/ ~HasActionAnchor(DataRows[i])) =>
                  Returned /\ Len(out.val) >= i /\ out.val[i].reportId = -1

\* C10: a data row that lacks a required element does not make the call
\* raise, and the Job of every well-formed data row is returned.
C10_MalformedRowTolerated ==
    (call = "parseDecodedAjaxShowJobsData" /\ out # Pending) =>
        /\ Returned
        /\ \A i \in 1..Len(DataRows) :
              ParseJobRow(DataRows[i].cols).exc = "" =>
                  \E k \in 1..Len(out.val) : out.val[k] = ParseJobRow(DataRows[i].cols).val

\* ------------------------------------------------------------------------
\* Properties of parseSingleJobData.

\* aaData is present with all twelve rows
FullJobArr == arg.aaData # None /\ Len(arg.aaData[1]) >= 12

\* row 3, column "1" is the string s
AgentIs(s) == arg.aaData[1][4].c1 # None /\ arg.aaData[1][4].c1[1].s = s

\* row 11, column "1" is a string that is s up to its first <br>
StatusIs(s) ==
    LET m == arg.aaData[1][12].c1
    IN /\ m # None
       /\ m[1].t = "str"
       /\ ~(\E k \in 1..Len(s) : OccursAt(s, S_br, k))
       /\ \/ m[1].s = s
          \/ /\ Len(m[1].s) >= Len(s) + Len(S_br)
             /\ SubSeq(m[1].s, 1, Len(s)) = s
             /\ OccursAt(m[1].s, S_br, Len(s) + 1)

ReporterCompleted == (AgentIs(S_spdx2tv) \/ AgentIs(S_spdx2)) /\ StatusIs(S_Completed)

\* the argument with row 1 replaced by a row that cannot be read as integer
WithUnreadableReportRow ==
    [aaData |-> Some([arg.aaData[1] EXCEPT ![2] = JRow(Some(JStr(<<"?">>)))])]

\* C4: with aaData present, row 1 is read as reportId only when the agent is
\* spdx2tv or spdx2 and the status is "Completed": then a returned Job has
\* the integer of row 1; for every other agent and status a returned Job has
\* reportId -1 and the outcome of the call does not depend on row 1.
C4_ReportRowGate ==
    (call = "parseSingleJobData" /\ out # Pending /\ FullJobArr) =>
        /\ (ReporterCompleted /\ Returned) =>
              IntOfMember(arg.aaData[1][2].c1) = Ret(out.val[1].reportId)
        /\ ~ReporterCompleted =>
              /\ Returned => out.val[1].reportId = -1
              /\ out = parseSingleJobData(WithUnreadableReportRow)

\* agent nomos, status "Completed", row 1 holds "17": the Job came back
\* with reportId -1
C4_Witness ==
    /\ call = "parseSingleJobData"
    /\ FullJobArr
    /\ AgentIs(S_nomos)
    /\ StatusIs(S_Completed)
    /\ arg.aaData[1][2].c1 = Some(JStr(<<"1", "7">>))
    /\ Returned
    /\ out.val[1].reportId = -1

\* ------------------------------------------------------------------------
\* Properties of the upload extractors.

\* the rows whose single-item extraction yields a record
UsableItems ==
    SelectSeq(arg, LAMBDA item : parseUploadDataForFolderLineItem(item).exc = "")

\* C7: the call returns the records of the rows whose single-item
\* extraction yields one, in row order; the other rows are left out and do
\* not end the call.
C7_UsableRowsInOrder ==
    (call = "parseAllUploadDataForFolder" /\ out # Pending) =>
        /\ Returned
        /\ Len(out.val) <= Len(arg)
        /\ Len(out.val) = Len(UsableItems)
        /\ \A i \in 1..Len(UsableItems) :
              parseUploadDataForFolderLineItem(UsableItems[i]) = Ret(out.val[i])

\* C8: for a line item whose cell 0 has no bold tag the call does not raise
\* and returns a record whose name is the default "".
C8_NoBoldKeepsDefault ==
    (/\ call = "parseUploadDataForFolderLineItem"
     /\ out # Pending
     /\ Len(arg) >= 3
     /\ arg[3].list # <<>>
     /\ arg[1].b = None) =>
        /\ Returned
        /\ out.val.name = ParsedUpload.name

====
